---- MODULE Spec2Model ----
(***************************************************************************)
(* The video indexing pipeline of autodidact-ai-core:                      *)
(*   orchestrator -> tasks.video.new -> transcription worker               *)
(*                -> tasks.video.transcribed -> quality assessment worker  *)
(*                -> tasks.video.validated -> embedding worker             *)
(*                -> tasks.video.ingested                                  *)
(* together with the videos table (database_utils), the Chroma collection  *)
(* (IntakeAgent) and the manual review actions of the admin dashboard.     *)
(*                                                                         *)
(* Spec is the pipeline; SpecRedelivery adds worker deaths between effect   *)
(* and ack, SpecMalformed malformed publications; SpecOrchestrator is the   *)
(* producer alone (IndexingOrchestrator), SpecProxy the proxy pool alone    *)
(* (ProxyManager).                                                          *)
(*                                                                         *)
(* Scores are integers in thousandths (800 is 0.8).  Every message carries *)
(* a field deliv that counts how often the broker has delivered it; the    *)
(* field is bookkeeping of the model, the workers never read it.           *)
(***************************************************************************)
EXTENDS Integers, Sequences, FiniteSets, TLC

\* ---------------------------------------------------------------- bounds
MaxSubmits == 2
MaxDeliveries == 4
MaxChunks == 2
MaxScriptRuns == 1
MaxCrashes == 1
MaxMalformed == 1
MaxBatch == 3
MaxRequests == 4
MaxNow == 45

\* the clock advances in steps of TimeStep minutes
TimeStep == 15

\* the proxies of the pool, in the order of the stats dict
ProxyList == <<"p1", "p2">>
Proxies == {ProxyList[k] : k \in 1..Len(ProxyList)}

Strategies == {"round_robin", "random", "performance"}

\* _current_index is only read modulo the length of a non-empty list of
\* active proxies (1 or 2)
IndexModulus == 2

\* whether the configured URL of the proxy starts with "http"
HasScheme == [p \in Proxies |-> p = "p1"]

\* the outcomes of api.fetch: a transcript, TranscriptsDisabled or
\* NoTranscriptFound, any other exception
AttemptOutcomes == {"ok", "disabled", "error"}

Items == {"X", "Y"}

\* overall scores the scorer can return for the fetched content
Scores == {550, 800, 920}

\* outcomes of the scraping backend for one fetch
FetchOutcomes == {"ok", "no_transcript", "network_error"}

\* calls of get_transcript
MaxFetches == 2

\* calls of score_content on one scorer
MaxScores == 3

\* the last day the clock reaches; the clock advances DayStep days at a time
MaxDay == 40

DayStep == 20

\* ------------------------------------------------------ program constants
max_retries == 3
GateThreshold == 800

NoScore == -1
ScorerRaises == -2

\* ProxyManager.__init__ defaults
max_consecutive_failures == 3
cooldown_minutes == 30

\* last_failure = None
NoTime == -1

\* ProxyStats(proxy_url=proxy)
NewProxyStats == [total_requests |-> 0, consecutive_failures |-> 0, is_active |-> TRUE,
                  last_failure |-> NoTime]

NoProxyCall == [result |-> "none", at |-> 0, cooled |-> {}, toggle |-> FALSE]

\* QualityScore.WEIGHTS, in hundredths
WEIGHTS == [relevance |-> 30, authority |-> 25, engagement |-> 20, freshness |-> 15,
            completeness |-> 10]

\* published_at = None, and a timezone-aware published_at; every other
\* published_at is a day number
NoDate == -1
AwareDate == -2

\* no QualityScore: the call raised, or no call was made
NoQualityScore == [raised |-> TRUE, overall |-> 0, relevance |-> 0, authority |-> 0,
                   engagement |-> 0, freshness |-> 0, completeness |-> 0]

NoMetrics == [nq |-> 0, title_overlap |-> 0, desc_overlap |-> 0, transcript_overlap |-> 0,
              tag_overlap |-> 0, subscriber_count |-> 0, is_verified |-> FALSE,
              view_count |-> 0, like_count |-> 0, comment_count |-> 0,
              published_at |-> NoDate, transcript_words |-> 0, duration_seconds |-> 0,
              has_captions |-> FALSE, desc_words |-> 0]

\* the ContentMetrics the scorer is called with: the keyword counts of the query
\* and its overlaps, the counts, the day of publication, the word counts
GoodVideo == [nq |-> 2, title_overlap |-> 2, desc_overlap |-> 2, transcript_overlap |-> 2,
              tag_overlap |-> 2, subscriber_count |-> 10000000, is_verified |-> TRUE,
              view_count |-> 0, like_count |-> 0, comment_count |-> 0,
              published_at |-> 0, transcript_words |-> 500, duration_seconds |-> 900,
              has_captions |-> TRUE, desc_words |-> 50]

MetricsSet ==
  { GoodVideo,
    [GoodVideo EXCEPT !.view_count = 1000, !.like_count = 50, !.comment_count = 999],
    [GoodVideo EXCEPT !.view_count = 1000, !.like_count = 25, !.comment_count = 9],
    [GoodVideo EXCEPT !.published_at = NoDate],
    [GoodVideo EXCEPT !.published_at = AwareDate],
    [GoodVideo EXCEPT !.published_at = -400, !.duration_seconds = 2400],
    [GoodVideo EXCEPT !.nq = 0, !.title_overlap = 0, !.desc_overlap = 0,
                      !.transcript_overlap = 0, !.tag_overlap = 0],
    [GoodVideo EXCEPT !.title_overlap = 1, !.desc_overlap = 0, !.tag_overlap = 0,
                      !.subscriber_count = 1000, !.is_verified = FALSE,
                      !.transcript_words = 100, !.duration_seconds = 200,
                      !.has_captions = FALSE, !.desc_words = 20] }

\* the constructor arguments: min_score_threshold, <<relevance_boost, authority_boost>>
Thresholds == {0, 80000}

Boosts == {<<1000, 1000>>, <<2000, 1500>>}

NoFetch == [pc |-> "idle", attempt |-> 0, proxy |-> "none", outcome |-> "none",
            result |-> "none", fetches |-> 0]

NoScoreCall == [called |-> FALSE, metrics |-> NoMetrics, at |-> 0,
                result |-> NoQualityScore, passed |-> "unknown"]

NoReason == [text |-> "NULL", score |-> NoScore]
NoRow == [status |-> "NO_ROW", quality_score |-> NoScore, rejection_reason |-> NoReason]

required_factors == {"relevance", "authority", "engagement", "freshness", "completeness"}

\* keys of QualityScore.to_dict()
to_dict_keys == {"overall", "relevance", "authority", "engagement", "freshness", "completeness"}

VARIABLES
  videos,             \* videos table: item -> row (NoRow while not inserted)
  qNew,               \* tasks.video.new
  qTranscribed,       \* tasks.video.transcribed
  qValidated,         \* tasks.video.validated
  qIngested,          \* tasks.video.ingested
  collection,         \* Chroma collection: set of [chunk, id]
  nextUuid,           \* next fresh uuid4 prefix
  pending_videos_df,  \* rows rendered on the dashboard's review page
  submits,            \* number of submissions so far
  statusHist,         \* item -> sequence of the distinct statuses persisted
  everApproved,       \* items whose status was ever set to approved
  lastCall,           \* what the last worker callback did
  crashes,            \* number of worker deaths and channel failures
  lastSubmit,         \* what the last call of the orchestrator did and returned
  stats,              \* ProxyManager.stats: proxy -> ProxyStats
  current_index,      \* ProxyManager._current_index, modulo IndexModulus
  strategy,           \* ProxyManager.strategy
  enable_direct_fallback,
  now,                \* datetime.now(), in minutes
  lastProxy,          \* what the last call of get_proxy returned
  scorer,             \* the QualityScorer object: parameters and statistics
  today,              \* datetime.now(), in days
  lastScore,          \* the last call of score_content: metrics, day, result
  prevScore,          \* the call of score_content before the last
  fetch               \* the position and the last outcome of get_transcript

vars == <<videos, qNew, qTranscribed, qValidated, qIngested, collection, nextUuid,
          pending_videos_df, submits, statusHist, everApproved,
          lastCall, crashes, lastSubmit,
          stats, current_index, strategy, enable_direct_fallback, now, lastProxy,
          scorer, today, lastScore, prevScore, fetch>>

\* the variables of the proxy pool
pool == <<stats, current_index, strategy, enable_direct_fallback, now, lastProxy>>

\* the variables of the quality scorer
scoring == <<scorer, today, lastScore, prevScore>>

\* the variables of the crawler
crawling == <<fetch>>

\* the variables that belong to the callers of the pipeline, to the pool, to
\* the scorer and to the crawler
others == <<lastSubmit, pool, scoring, crawling>>

\* the variables of the pipeline
pipeline == <<videos, qNew, qTranscribed, qValidated, qIngested, collection, nextUuid,
              pending_videos_df, submits, statusHist, everApproved, lastCall, crashes>>

queues == <<qNew, qTranscribed, qValidated, qIngested>>

NoCall == [stage |-> "none", id |-> "none", cause |-> "none", outcome |-> "none", retry |-> 0, deliv |-> 0,
           score |-> NoScore, ops |-> <<>>, query |-> "none"]

NoResults == [total |-> 0, successful |-> 0, failed |-> 0]

NoSubmit == [call |-> "none", urls |-> <<>>, hints |-> "none", returned |-> FALSE,
             results |-> NoResults, before |-> <<>>]

\* ------------------------------------------------------------- database
\* f"{quality_score:.2f}": the score rounded to hundredths
Fmt2(s) == (s + 5) \div 10

BelowThresholdReason(s) == [text |-> "Quality score is below threshold (0.8)", score |-> Fmt2(s)]
TextReason(t) == [text |-> t, score |-> NoScore]

\* INSERT ... VALUES (..., 'scraped') ON CONFLICT (video_id) DO NOTHING
log_channel_and_video(v, id) ==
  IF v[id].status = "NO_ROW"
    THEN [v EXCEPT ![id] = [status |-> "scraped", quality_score |-> NoScore,
                            rejection_reason |-> NoReason]]
    ELSE v

\* UPDATE videos SET status, quality_score, rejection_reason WHERE video_id
update_video_status(v, id, status, score, reason) ==
  IF v[id].status = "NO_ROW"
    THEN v
    ELSE [v EXCEPT ![id] = [status |-> status, quality_score |-> score,
                            rejection_reason |-> reason]]

\* UPDATE videos SET status, reviewer_notes WHERE video_id  (dashboard)
update_status_sql(v, id, new_status) ==
  IF v[id].status = "NO_ROW"
    THEN v
    ELSE [v EXCEPT ![id].status = new_status]

\* the items whose row holds status approved are added to the set e
Approved(e, v) == e \cup {i \in Items : v[i].status = "approved"}

Record(h, v) ==
  [i \in Items |->
     IF v[i].status # "NO_ROW" /\ (Len(h[i]) = 0 \/ h[i][Len(h[i])] # v[i].status)
       THEN Append(h[i], v[i].status)
       ELSE h[i]]

\* ProxyManager(strategy=st, enable_direct_fallback=fb) over ProxyList
ProxyManagerInit(st, fb) ==
  /\ stats = [p \in Proxies |-> NewProxyStats]
  /\ current_index = 0
  /\ strategy = st
  /\ enable_direct_fallback = fb
  /\ now = 0
  /\ lastProxy = NoProxyCall
  /\ fetch = NoFetch

\* QualityScorer(min_score_threshold=th, relevance_boost=rb, authority_boost=ab)
QualityScorerInit(th, rb, ab) ==
  /\ scorer = [min_score_threshold |-> th, relevance_boost |-> rb, authority_boost |-> ab,
               scores_calculated |-> 0, scores_above_threshold |-> 0,
               average_score |-> 0]
  /\ today = 0
  /\ lastScore = NoScoreCall
  /\ prevScore = NoScoreCall

\* the empty queues, table and collection, no call made yet
PipelineInit ==
  /\ videos = [i \in Items |-> NoRow]
  /\ qNew = <<>>
  /\ qTranscribed = <<>>
  /\ qValidated = <<>>
  /\ qIngested = <<>>
  /\ collection = {}
  /\ nextUuid = 1
  /\ pending_videos_df = {}
  /\ submits = 0
  /\ statusHist = [i \in Items |-> <<>>]
  /\ everApproved = {}
  /\ lastCall = NoCall
  /\ crashes = 0
  /\ lastSubmit = NoSubmit

Init ==
  /\ ProxyManagerInit("performance", TRUE)
  /\ QualityScorerInit(0, 1000, 1000)
  /\ PipelineInit

\* a body that json.loads rejects, or a JSON object without the fields the
\* stage reads; such a message stands for no item
MalformedMessage ==
  [id |-> "malformed", metadata |-> [has_required |-> FALSE, quality_score |-> NoScore,
                                     helpfulness_score |-> NoScore, has_breakdown |-> FALSE,
                                     breakdown_keys |-> {}, domain |-> "none"],
   retry |-> 0, deliv |-> 0]

Malformed(m) == m.id \notin Items

\* ------------------------------------------------- order of the operations
\* the store writes, publishes and acknowledgements a callback performs, in
\* the order of its statements
\* the acknowledgement moved to the top of the callback
transcription_callback_ack_first(outcome) ==
  CASE outcome = "forwarded" -> <<"ack", "db_write", "publish">>
    [] outcome = "requeued" -> <<"ack", "publish">>
    [] OTHER -> <<"ack">>

\* transcription_worker.callback: process_transcription (log_channel_and_video),
\* basic_publish, basic_ack; the retry branch republishes, then acks
transcription_callback_ops(outcome) ==
  CASE outcome = "forwarded" -> <<"db_write", "publish", "ack">>
    [] outcome = "requeued" -> <<"publish", "ack">>
    [] OTHER -> <<"ack">>

\* quality_assessment_worker.callback: process_validation (update_video_status),
\* basic_publish if it returned a result, basic_ack; basic_nack on any exception
quality_callback_ops(outcome, cause) ==
  CASE outcome = "approved" -> <<"db_write", "publish", "ack">>
    [] outcome = "pending_review" -> <<"db_write", "ack">>
    [] outcome = "nacked" /\ cause = "no_score" -> <<"db_write", "nack">>
    [] OTHER -> <<"nack">>

\* embedding_worker.callback: process_embedding (collection.add, then
\* update_video_status), basic_publish, basic_ack; basic_nack on any exception
embedding_callback_ops(outcome, cause) ==
  CASE outcome = "ingested" -> <<"index_write", "db_write", "publish", "ack">>
    [] outcome = "nacked" /\ cause = "db_error" -> <<"index_write", "nack">>
    [] OTHER -> <<"nack">>

WithOps(call) ==
  [call EXCEPT !.ops = CASE call.stage = "fetch" -> transcription_callback_ops(call.outcome)
                         [] call.stage = "gate" -> quality_callback_ops(call.outcome, call.cause)
                         [] OTHER -> embedding_callback_ops(call.outcome, call.cause)]

\* --------------------------------------------------------- orchestrator
\* additional_metadata or {}: "none" is the empty dict, "hints" a dict with
\* domain_id, subdomain_id and difficulty
Hints == {"none", "hints"}

\* the hints the callers of the pipeline submit with each URL
HintsOf(i) == IF i = "X" THEN "hints" ELSE "none"

\* channel.basic_publish(routing_key=QUEUE_VIDEO_NEW, body=json.dumps(message)),
\* which raises when ok is FALSE
publish_new(q, i, h, ok) ==
  IF ok THEN Append(q, [id |-> i, hints |-> h, retry |-> 0, deliv |-> 0]) ELSE q

\* the function returns True whatever the publish did
submit_returns_true(ok) == TRUE

\* return True after the publish, return False in the except branch
submit_returns(ok) == IF ok THEN TRUE ELSE FALSE

\* a submission whose publish succeeds; one whose publish fails leaves the
\* pipeline as it is
submit_video_for_indexing(i) ==
  /\ submits < MaxSubmits
  /\ submits' = submits + 1
  /\ qNew' = publish_new(qNew, i, HintsOf(i), TRUE)
  /\ UNCHANGED <<videos, qTranscribed, qValidated, qIngested, collection, nextUuid,
                 pending_videos_df, statusHist, everApproved, lastCall>>
  /\ UNCHANGED <<crashes, others>>


\* ---------------------------------------------------- transcription worker
\* metadata dict built by the scrapers: source_url, video_id, title, ...;
\* none of them sets domain_id, source, difficulty, helpfulness_score or
\* text_length, the required fields of UnifiedMetadata; domain stands for the
\* keys domain_id, subdomain_id and skill_level, "none" when all are absent
ScraperMetadata ==
  [has_required |-> FALSE, quality_score |-> NoScore, helpfulness_score |-> NoScore,
   has_breakdown |-> FALSE, breakdown_keys |-> {}, domain |-> "none"]

\* the dict process_transcription returns: youtube_url, content, the
\* scraper's metadata and its video_id; message_data['additional_metadata']
\* is not read
process_transcription(m) ==
  [id |-> m.id, metadata |-> ScraperMetadata, retry |-> 0, deliv |-> 0]

\* get_youtube_transcript: every backend catches its errors and returns
\* (None, None), for disabled transcripts and for any other failure alike
get_youtube_transcript(outcome) ==
  IF outcome = "ok" THEN "content" ELSE "None"

\* raised by process_transcription: "ValueError" when the fetch returned
\* nothing, the database error when logging fails, "none" on success
process_transcription_raises(outcome, dbOk) ==
  IF get_youtube_transcript(outcome) = "None" THEN "ValueError"
  ELSE IF ~dbOk THEN "Exception"
  ELSE "none"

transcription_callback ==
  /\ qNew # <<>>
  /\ LET m == Head(qNew)
         d == m.deliv + 1
     IN /\ m.deliv < MaxDeliveries
        /\ \E outcome \in FetchOutcomes, dbOk \in BOOLEAN :
             LET raised == IF Malformed(m) THEN "ValueError"
                           ELSE process_transcription_raises(outcome, dbOk)
                 cause == IF Malformed(m) THEN "malformed"
                          ELSE IF raised = "Exception" THEN "db_error" ELSE outcome
                 call == [stage |-> "fetch", id |-> m.id, cause |-> cause, outcome |-> "none",
                          retry |-> m.retry, deliv |-> d, score |-> NoScore, ops |-> <<>>,
                          query |-> "none"]
             IN /\ (outcome # "ok" => dbOk)
                /\ CASE raised = "none" ->
                          \* log to the database, publish to the next queue, ack
                          /\ videos' = log_channel_and_video(videos, m.id)
                          /\ qTranscribed' = Append(qTranscribed, process_transcription(m))
                          /\ qNew' = Tail(qNew)
                          /\ lastCall' = WithOps([call EXCEPT !.outcome = "forwarded"])
                     [] raised = "ValueError" ->
                          \* except ValueError (json.JSONDecodeError is one, and a
                          \* body without youtube_url fetches nothing): acknowledge
                          \* and discard
                          /\ qNew' = Tail(qNew)
                          /\ lastCall' = WithOps([call EXCEPT !.outcome = "skipped"])
                          /\ UNCHANGED <<videos, qTranscribed>>
                     [] raised = "Exception" /\ m.retry < max_retries ->
                          \* republish with x-retry-count + 1, then ack
                          /\ qNew' = Append(Tail(qNew),
                                 [m EXCEPT !.retry = m.retry + 1, !.deliv = d])
                          /\ lastCall' = WithOps([call EXCEPT !.outcome = "requeued"])
                          /\ UNCHANGED <<videos, qTranscribed>>
                     [] raised = "Exception" /\ m.retry >= max_retries ->
                          \* max retries exceeded: acknowledge and discard
                          /\ qNew' = Tail(qNew)
                          /\ lastCall' = WithOps([call EXCEPT !.outcome = "discarded"])
                          /\ UNCHANGED <<videos, qTranscribed>>
  /\ statusHist' = Record(statusHist, videos')
  /\ UNCHANGED <<qValidated, qIngested, collection, nextUuid, pending_videos_df,
                 submits, everApproved>>
  /\ UNCHANGED <<crashes, others>>


\* ---------------------------------------------- quality assessment worker
\* the query handed to the scorer: built from domain_id, subdomain_id and
\* skill_level of the message's metadata, from the title when none is set
query_context(md) == IF md.domain # "none" THEN "hints" ELSE "title"

\* the comparison with <= in place of <: a score of exactly 0.8 is held back
below_threshold_inclusive(s) == s <= GateThreshold

\* if quality_score < 0.8: the item goes to manual review
below_threshold(s) == s < GateThreshold

\* final_metadata = {**metadata, 'quality_score': ..., 'quality_breakdown': to_dict()}
final_metadata(md, s) ==
  [md EXCEPT !.quality_score = s, !.has_breakdown = TRUE, !.breakdown_keys = to_dict_keys]

\* process_validation: the status write of each branch, as <<status, score, reason>>
process_validation(r) ==
  IF r = NoScore
    THEN <<"error_validation", NoScore, TextReason("Quality scorer failed to produce score")>>
  ELSE IF below_threshold(r)
    THEN <<"pending_review", r, BelowThresholdReason(r)>>
  ELSE <<"approved", r, TextReason("Passed quality threshold")>>

quality_callback ==
  /\ qTranscribed # <<>>
  /\ LET m == Head(qTranscribed)
         d == m.deliv + 1
         requeued == <<[m EXCEPT !.deliv = d]>> \o Tail(qTranscribed)
     IN /\ m.deliv < MaxDeliveries
        /\ \E r \in Scores \cup {ScorerRaises}, dbOk \in BOOLEAN :
             LET w == process_validation(r)
                 call == [stage |-> "gate", id |-> m.id, cause |-> "scored", outcome |-> "none",
                          retry |-> 0, deliv |-> d, score |-> r, ops |-> <<>>,
                          query |-> IF Malformed(m) THEN "none"
                                    ELSE query_context(m.metadata)]
             IN /\ (r = ScorerRaises => dbOk)
                /\ CASE Malformed(m) ->
                          \* json.loads or metadata.get raised: basic_nack(requeue=True)
                          /\ r = ScorerRaises
                          /\ qTranscribed' = requeued
                          /\ lastCall' = WithOps([call EXCEPT !.cause = "malformed",
                                                              !.outcome = "nacked",
                                                              !.score = NoScore])
                          /\ UNCHANGED <<videos, qValidated>>
                     [] ~Malformed(m) /\ r = ScorerRaises ->
                          \* score_content raised: basic_nack(requeue=True)
                          /\ qTranscribed' = requeued
                          /\ lastCall' = WithOps([call EXCEPT !.cause = "scorer_raised",
                                                      !.outcome = "nacked"])
                          /\ UNCHANGED <<videos, qValidated>>
                     [] ~Malformed(m) /\ r # ScorerRaises /\ ~dbOk ->
                          \* update_video_status raised: basic_nack(requeue=True)
                          /\ qTranscribed' = requeued
                          /\ lastCall' = WithOps([call EXCEPT !.cause = "db_error",
                                                      !.outcome = "nacked"])
                          /\ UNCHANGED <<videos, qValidated>>
                     [] ~Malformed(m) /\ r # ScorerRaises /\ dbOk /\ w[1] = "error_validation" ->
                          \* status written, then ValueError: basic_nack(requeue=True)
                          /\ videos' = update_video_status(videos, m.id, w[1], w[2], w[3])
                          /\ qTranscribed' = requeued
                          /\ lastCall' = WithOps([call EXCEPT !.cause = "no_score",
                                                      !.outcome = "nacked"])
                          /\ UNCHANGED qValidated
                     [] ~Malformed(m) /\ r # ScorerRaises /\ dbOk /\ w[1] = "pending_review" ->
                          \* return None: nothing published, ack
                          /\ videos' = update_video_status(videos, m.id, w[1], w[2], w[3])
                          /\ qTranscribed' = Tail(qTranscribed)
                          /\ lastCall' = WithOps([call EXCEPT !.outcome = "pending_review"])
                          /\ UNCHANGED qValidated
                     [] ~Malformed(m) /\ r # ScorerRaises /\ dbOk /\ w[1] = "approved" ->
                          \* publish to tasks.video.validated, ack
                          /\ videos' = update_video_status(videos, m.id, w[1], w[2], w[3])
                          /\ qValidated' = Append(qValidated,
                                 [id |-> m.id, metadata |-> final_metadata(m.metadata, r),
                                  retry |-> 0, deliv |-> 0])
                          /\ qTranscribed' = Tail(qTranscribed)
                          /\ lastCall' = WithOps([call EXCEPT !.outcome = "approved"])
  /\ statusHist' = Record(statusHist, videos')
  /\ everApproved' = Approved(everApproved, videos')
  /\ UNCHANGED <<qNew, qIngested, collection, nextUuid, pending_videos_df,
                 submits>>
  /\ UNCHANGED <<crashes, others>>

\* -------------------------------------------------------- embedding worker
\* UnifiedMetadata.validate_quality_breakdown
validate_quality_breakdown(md) ==
  ~md.has_breakdown \/ md.breakdown_keys = required_factors

\* UnifiedMetadata(**metadata): required fields present, scores within [0, 1],
\* the breakdown accepted by its validator
UnifiedMetadataValid(md) ==
  /\ md.has_required
  /\ md.helpfulness_score \in 0..1000
  /\ md.quality_score = NoScore \/ md.quality_score \in 0..1000
  /\ validate_quality_breakdown(md)

\* chunk_id = f"{instrument_id}-{str(uuid.uuid4())[:8]}-{i}"; collection.add
process_and_add_document(c, id, uuid) == c \cup {[chunk |-> uuid, id |-> id]}

embedding_callback ==
  /\ qValidated # <<>>
  /\ LET m == Head(qValidated)
         d == m.deliv + 1
         requeued == <<[m EXCEPT !.deliv = d]>> \o Tail(qValidated)
         call == [stage |-> "ingest", id |-> m.id, cause |-> "ok", outcome |-> "nacked",
                  retry |-> 0, deliv |-> d, score |-> m.metadata.quality_score,
                  ops |-> <<>>, query |-> "none"]
     IN /\ m.deliv < MaxDeliveries
        /\ \E chromaOk \in BOOLEAN, dbOk \in BOOLEAN :
             CASE Malformed(m) ->
                    \* json.loads or metadata.get raised: basic_nack(requeue=True)
                    /\ chromaOk /\ dbOk
                    /\ qValidated' = requeued
                    /\ lastCall' = WithOps([call EXCEPT !.cause = "malformed"])
                    /\ UNCHANGED <<videos, qIngested, collection, nextUuid>>
               [] ~Malformed(m) /\ ~UnifiedMetadataValid(m.metadata) ->
                    \* ValueError("Invalid metadata"): basic_nack(requeue=True)
                    /\ chromaOk /\ dbOk
                    /\ qValidated' = requeued
                    /\ lastCall' = WithOps([call EXCEPT !.cause = "invalid_metadata"])
                    /\ UNCHANGED <<videos, qIngested, collection, nextUuid>>
               [] ~Malformed(m) /\ UnifiedMetadataValid(m.metadata) /\ ~chromaOk ->
                    \* collection.add raised: basic_nack(requeue=True)
                    /\ dbOk
                    /\ qValidated' = requeued
                    /\ lastCall' = WithOps([call EXCEPT !.cause = "index_error"])
                    /\ UNCHANGED <<videos, qIngested, collection, nextUuid>>
               [] ~Malformed(m) /\ UnifiedMetadataValid(m.metadata) /\ chromaOk /\ ~dbOk ->
                    \* chunk added, update_video_status raised: basic_nack(requeue=True)
                    /\ nextUuid <= MaxChunks
                    /\ collection' = process_and_add_document(collection, m.id, nextUuid)
                    /\ nextUuid' = nextUuid + 1
                    /\ qValidated' = requeued
                    /\ lastCall' = WithOps([call EXCEPT !.cause = "db_error"])
                    /\ UNCHANGED <<videos, qIngested>>
               [] ~Malformed(m) /\ UnifiedMetadataValid(m.metadata) /\ chromaOk /\ dbOk ->
                    \* chunk added, status ingested, publish to tasks.video.ingested, ack
                    /\ nextUuid <= MaxChunks
                    /\ collection' = process_and_add_document(collection, m.id, nextUuid)
                    /\ nextUuid' = nextUuid + 1
                    /\ videos' = update_video_status(videos, m.id, "ingested", NoScore, NoReason)
                    /\ qIngested' = Append(qIngested, [id |-> m.id, status |-> "ingested"])
                    /\ qValidated' = Tail(qValidated)
                    /\ lastCall' = WithOps([call EXCEPT !.outcome = "ingested"])
  /\ statusHist' = Record(statusHist, videos')
  /\ UNCHANGED <<qNew, qTranscribed, pending_videos_df, submits, everApproved>>
  /\ UNCHANGED <<crashes, others>>


\* ------------------------------------------------ manual review, requeueing
\* get_pending_videos: SELECT ... WHERE v.status = 'pending_review'
get_pending_videos(v) == {i \in Items : v[i].status = "pending_review"}

\* the query without its "AND v.status = 'approved'" condition
get_video_data_any_status(v, id) == v[id].status # "NO_ROW"

\* get_video_data: SELECT ... WHERE v.video_id = %s AND v.status = 'approved'
get_video_data(v, id) == v[id].status = "approved"

\* enriched_metadata: the required UnifiedMetadata fields are filled in;
\* quality_score is float(row[3]) if row[3] else None, helpfulness_score is
\* quality_score or 0.5
enriched_metadata(row) ==
  LET qs == IF row.quality_score \in {NoScore, 0} THEN NoScore ELSE row.quality_score
  IN [has_required |-> TRUE, quality_score |-> qs,
      helpfulness_score |-> IF qs = NoScore THEN 500 ELSE qs,
      has_breakdown |-> FALSE, breakdown_keys |-> {}, domain |-> "UNCATEGORIZED"]

\* queue_approved_video_for_ingestion / queue_for_ingestion: the validated
\* queue after the call; unchanged when the row is not approved or the
\* transcript cannot be fetched again (both raise ValueError)
queue_for_ingestion(q, v, id, outcome) ==
  IF get_video_data(v, id) /\ get_youtube_transcript(outcome) # "None"
    THEN Append(q, [id |-> id, metadata |-> enriched_metadata(v[id]), retry |-> 0, deliv |-> 0])
    ELSE q

\* the review page is rendered from the pending rows
render_review_page ==
  /\ pending_videos_df # get_pending_videos(videos)
  /\ pending_videos_df' = get_pending_videos(videos)
  /\ UNCHANGED <<videos, queues, collection, nextUuid, submits, statusHist,
                 everApproved, lastCall>>
  /\ UNCHANGED <<crashes, others>>

\* a click on "Approve & Queue" or "Reject" of a rendered row; the page is
\* rendered again after the callback (st.cache_data.clear())
update_status_callback(i, new_status) ==
  /\ i \in pending_videos_df
  /\ videos' = update_status_sql(videos, i, new_status)
  /\ IF new_status = "approved"
       THEN \E outcome \in FetchOutcomes :
              qValidated' = queue_for_ingestion(qValidated, videos', i, outcome)
       ELSE UNCHANGED qValidated
  /\ everApproved' = Approved(everApproved, videos')
  /\ pending_videos_df' = get_pending_videos(videos')
  /\ statusHist' = Record(statusHist, videos')
  /\ UNCHANGED <<qNew, qTranscribed, qIngested, collection, nextUuid, submits, lastCall>>
  /\ UNCHANGED <<crashes, others>>

\* python scripts/queue_approved_video.py <video_id>
queue_approved_video(i) ==
  /\ Len(qValidated) < MaxScriptRuns
  /\ \E outcome \in FetchOutcomes :
       qValidated' = queue_for_ingestion(qValidated, videos, i, outcome)
  /\ qValidated' # qValidated
  /\ UNCHANGED <<videos, qNew, qTranscribed, qIngested, collection, nextUuid,
                 pending_videos_df, submits, statusHist, everApproved, lastCall>>
  /\ UNCHANGED <<crashes, others>>

\* ------------------------------------------- consumer death before the ack
\* The workers consume with manual acknowledgement (basic_consume without
\* auto_ack): when a worker dies after the effects of a callback and before
\* its basic_ack, the broker delivers the message again.
transcription_callback_crash ==
  /\ qNew # <<>>
  /\ LET m == Head(qNew)
         d == m.deliv + 1
     IN /\ m.deliv < MaxDeliveries
        /\ ~Malformed(m)
        /\ videos' = log_channel_and_video(videos, m.id)
        /\ qTranscribed' = Append(qTranscribed, process_transcription(m))
        /\ qNew' = <<[m EXCEPT !.deliv = d]>> \o Tail(qNew)
        /\ lastCall' = [stage |-> "fetch", id |-> m.id, cause |-> "ok", outcome |-> "crashed",
                        retry |-> m.retry, deliv |-> d, score |-> NoScore,
                        ops |-> <<"db_write", "publish">>, query |-> "none"]
  /\ statusHist' = Record(statusHist, videos')
  /\ UNCHANGED <<qValidated, qIngested, collection, nextUuid, pending_videos_df,
                 submits, everApproved>>
  /\ crashes < MaxCrashes
  /\ crashes' = crashes + 1
  /\ UNCHANGED others

quality_callback_crash ==
  /\ qTranscribed # <<>>
  /\ LET m == Head(qTranscribed)
         d == m.deliv + 1
     IN /\ m.deliv < MaxDeliveries
        /\ ~Malformed(m)
        /\ \E r \in Scores :
             LET w == process_validation(r)
             IN /\ videos' = update_video_status(videos, m.id, w[1], w[2], w[3])
                /\ qValidated' =
                     IF w[1] = "approved"
                       THEN Append(qValidated,
                              [id |-> m.id, metadata |-> final_metadata(m.metadata, r),
                               retry |-> 0, deliv |-> 0])
                       ELSE qValidated
                /\ lastCall' = [stage |-> "gate", id |-> m.id, cause |-> "scored",
                                outcome |-> "crashed", retry |-> 0, deliv |-> d, score |-> r,
                                ops |-> IF w[1] = "approved" THEN <<"db_write", "publish">>
                                                             ELSE <<"db_write">>,
                                query |-> query_context(m.metadata)]
        /\ qTranscribed' = <<[m EXCEPT !.deliv = d]>> \o Tail(qTranscribed)
  /\ statusHist' = Record(statusHist, videos')
  /\ everApproved' = Approved(everApproved, videos')
  /\ UNCHANGED <<qNew, qIngested, collection, nextUuid, pending_videos_df, submits>>
  /\ crashes < MaxCrashes
  /\ crashes' = crashes + 1
  /\ UNCHANGED others

embedding_callback_crash ==
  /\ qValidated # <<>>
  /\ LET m == Head(qValidated)
         d == m.deliv + 1
     IN /\ m.deliv < MaxDeliveries
        /\ ~Malformed(m)
        /\ UnifiedMetadataValid(m.metadata)
        /\ nextUuid <= MaxChunks
        /\ collection' = process_and_add_document(collection, m.id, nextUuid)
        /\ nextUuid' = nextUuid + 1
        /\ videos' = update_video_status(videos, m.id, "ingested", NoScore, NoReason)
        /\ qIngested' = Append(qIngested, [id |-> m.id, status |-> "ingested"])
        /\ qValidated' = <<[m EXCEPT !.deliv = d]>> \o Tail(qValidated)
        /\ lastCall' = [stage |-> "ingest", id |-> m.id, cause |-> "ok", outcome |-> "crashed",
                        retry |-> 0, deliv |-> d, score |-> m.metadata.quality_score,
                        ops |-> <<"index_write", "db_write", "publish">>, query |-> "none"]
  /\ statusHist' = Record(statusHist, videos')
  /\ UNCHANGED <<qNew, qTranscribed, pending_videos_df, submits, everApproved>>
  /\ crashes < MaxCrashes
  /\ crashes' = crashes + 1
  /\ UNCHANGED others
\* ------------------------------------- channel failures in the success path
\* basic_publish or basic_ack of the success path raises a pika exception (the
\* channel or the connection is gone); every later call on the channel either
\* succeeds or raises too. A call that raised is traced as <op>_failed. A
\* delivery that no call settled is redelivered by the broker.
Traced(op, ok) == IF ok THEN op ELSE op \o "_failed"

\* the calls of the success path up to the one that raises
success_path_ops(effects, publishes, fault) ==
  effects \o (IF ~publishes THEN <<"ack_failed">>
              ELSE IF fault = "publish" THEN <<"publish_failed">>
              ELSE <<"publish", "ack_failed">>)

\* transcription_worker.callback, except Exception: republish with
\* x-retry-count + 1 and ack while retry_count < max_retries, else ack
transcription_callback_fault(fault) ==
  /\ qNew # <<>>
  /\ LET m == Head(qNew)
         d == m.deliv + 1
     IN /\ m.deliv < MaxDeliveries
        /\ ~Malformed(m)
        /\ \E rp \in BOOLEAN, ak \in BOOLEAN :
             LET retries == m.retry < max_retries
                 republished == retries /\ rp
                 acked == (retries => rp) /\ ak
                 handler == IF retries
                              THEN IF rp THEN <<"publish", Traced("ack", ak)>>
                                         ELSE <<"publish_failed">>
                              ELSE <<Traced("ack", ak)>>
                 copy == IF republished
                           THEN <<[m EXCEPT !.retry = m.retry + 1, !.deliv = d]>>
                           ELSE <<>>
             IN /\ (~retries => rp)
                /\ (~(retries => rp) => ak)
                /\ videos' = log_channel_and_video(videos, m.id)
                /\ qTranscribed' = IF fault = "ack"
                                     THEN Append(qTranscribed, process_transcription(m))
                                     ELSE qTranscribed
                /\ qNew' = IF acked THEN Tail(qNew) \o copy
                           ELSE <<[m EXCEPT !.deliv = d]>> \o Tail(qNew) \o copy
                /\ lastCall' = [stage |-> "fetch", id |-> m.id, cause |-> "ok",
                                outcome |-> "channel_error", retry |-> m.retry,
                                deliv |-> d, score |-> NoScore,
                                ops |-> success_path_ops(<<"db_write">>, TRUE, fault)
                                          \o handler,
                                query |-> "none"]
  /\ statusHist' = Record(statusHist, videos')
  /\ UNCHANGED <<qValidated, qIngested, collection, nextUuid, pending_videos_df,
                 submits, everApproved>>
  /\ crashes < MaxCrashes
  /\ crashes' = crashes + 1
  /\ UNCHANGED others

\* quality_assessment_worker.callback, except Exception: basic_nack(requeue=True)
quality_callback_fault(fault) ==
  /\ qTranscribed # <<>>
  /\ LET m == Head(qTranscribed)
         d == m.deliv + 1
     IN /\ m.deliv < MaxDeliveries
        /\ ~Malformed(m)
        /\ \E r \in Scores, nk \in BOOLEAN :
             LET w == process_validation(r)
                 publishes == w[1] = "approved"
             IN /\ (fault = "publish" => publishes)
                /\ videos' = update_video_status(videos, m.id, w[1], w[2], w[3])
                /\ qValidated' =
                     IF publishes /\ fault = "ack"
                       THEN Append(qValidated,
                              [id |-> m.id, metadata |-> final_metadata(m.metadata, r),
                               retry |-> 0, deliv |-> 0])
                       ELSE qValidated
                /\ lastCall' = [stage |-> "gate", id |-> m.id, cause |-> "scored",
                                outcome |-> "channel_error", retry |-> 0, deliv |-> d,
                                score |-> r,
                                ops |-> success_path_ops(<<"db_write">>, publishes, fault)
                                          \o <<Traced("nack", nk)>>,
                                query |-> query_context(m.metadata)]
        /\ qTranscribed' = <<[m EXCEPT !.deliv = d]>> \o Tail(qTranscribed)
  /\ statusHist' = Record(statusHist, videos')
  /\ everApproved' = Approved(everApproved, videos')
  /\ UNCHANGED <<qNew, qIngested, collection, nextUuid, pending_videos_df, submits>>
  /\ crashes < MaxCrashes
  /\ crashes' = crashes + 1
  /\ UNCHANGED others

\* embedding_worker.callback, except Exception: basic_nack(requeue=True)
embedding_callback_fault(fault) ==
  /\ qValidated # <<>>
  /\ LET m == Head(qValidated)
         d == m.deliv + 1
     IN /\ m.deliv < MaxDeliveries
        /\ ~Malformed(m)
        /\ UnifiedMetadataValid(m.metadata)
        /\ nextUuid <= MaxChunks
        /\ \E nk \in BOOLEAN :
             lastCall' = [stage |-> "ingest", id |-> m.id, cause |-> "ok",
                          outcome |-> "channel_error", retry |-> 0, deliv |-> d,
                          score |-> m.metadata.quality_score,
                          ops |-> success_path_ops(<<"index_write", "db_write">>, TRUE, fault)
                                    \o <<Traced("nack", nk)>>,
                          query |-> "none"]
        /\ collection' = process_and_add_document(collection, m.id, nextUuid)
        /\ nextUuid' = nextUuid + 1
        /\ videos' = update_video_status(videos, m.id, "ingested", NoScore, NoReason)
        /\ qIngested' = IF fault = "ack"
                          THEN Append(qIngested, [id |-> m.id, status |-> "ingested"])
                          ELSE qIngested
        /\ qValidated' = <<[m EXCEPT !.deliv = d]>> \o Tail(qValidated)
  /\ statusHist' = Record(statusHist, videos')
  /\ UNCHANGED <<qNew, qTranscribed, pending_videos_df, submits, everApproved>>
  /\ crashes < MaxCrashes
  /\ crashes' = crashes + 1
  /\ UNCHANGED others

\* ------------------------------------------------- malformed publications
\* the queues accept whatever a client publishes: a malformed body arrives
\* on one of the three work queues
MalformedIn(q) == Cardinality({k \in 1..Len(q) : Malformed(q[k])})

publish_malformed(queue) ==
  /\ MalformedIn(qNew) + MalformedIn(qTranscribed) + MalformedIn(qValidated) < MaxMalformed
  /\ CASE queue = "new" ->
            /\ qNew' = Append(qNew, [id |-> "malformed", hints |-> "none", retry |-> 0,
                                     deliv |-> 0])
            /\ UNCHANGED <<qTranscribed, qValidated>>
       [] queue = "transcribed" ->
            /\ qTranscribed' = Append(qTranscribed, MalformedMessage)
            /\ UNCHANGED <<qNew, qValidated>>
       [] queue = "validated" ->
            /\ qValidated' = Append(qValidated, MalformedMessage)
            /\ UNCHANGED <<qNew, qTranscribed>>
  /\ UNCHANGED <<videos, qIngested, collection, nextUuid, pending_videos_df, submits,
                 statusHist, everApproved, lastCall, crashes, others>>

\* ------------------------------------------------ calls of the orchestrator
\* one call of submit_video_for_indexing(youtube_url, additional_metadata);
\* lastSubmit keeps the arguments, the return value and the queue as it was
\* before the call
submit_call(i, h, ok) ==
  /\ submits < MaxBatch
  /\ submits' = submits + 1
  /\ qNew' = publish_new(qNew, i, h, ok)
  /\ lastSubmit' = [call |-> "single", urls |-> <<i>>, hints |-> h,
                    returned |-> submit_returns(ok), results |-> NoResults,
                    before |-> qNew]
  /\ UNCHANGED <<videos, qTranscribed, qValidated, qIngested, collection, nextUuid,
                 pending_videos_df, statusHist, everApproved, lastCall, crashes, pool,
                 scoring, crawling>>

\* the loop of submit_batch: each URL is submitted without hints and counted
\* as successful or failed by the value submit_video_for_indexing returns
RECURSIVE batch_queue(_, _, _)
batch_queue(q, urls, oks) ==
  IF urls = <<>> THEN q
  ELSE batch_queue(publish_new(q, Head(urls), "none", Head(oks)), Tail(urls), Tail(oks))

RECURSIVE batch_results(_, _)
batch_results(results, oks) ==
  IF oks = <<>> THEN results
  ELSE batch_results(
         IF submit_returns(Head(oks))
           THEN [results EXCEPT !.successful = results.successful + 1]
           ELSE [results EXCEPT !.failed = results.failed + 1],
         Tail(oks))

submit_batch(urls, oks) ==
  /\ submits + Len(urls) <= MaxBatch
  /\ submits' = submits + Len(urls)
  /\ qNew' = batch_queue(qNew, urls, oks)
  /\ lastSubmit' = [call |-> "batch", urls |-> urls, hints |-> "none", returned |-> FALSE,
                    results |-> batch_results([total |-> Len(urls), successful |-> 0,
                                               failed |-> 0], oks),
                    before |-> qNew]
  /\ UNCHANGED <<videos, qTranscribed, qValidated, qIngested, collection, nextUuid,
                 pending_videos_df, statusHist, everApproved, lastCall, crashes, pool,
                 scoring, crawling>>

\* ------------------------------------------------------------- proxy pool
\* the cooldown test counts every inactive proxy as cooled down
cooldown_ignored(s, t) == TRUE

\* (now - stats.last_failure).total_seconds() / 60 >= self.cooldown_minutes
cooldown_passed(s, t) ==
  s.last_failure # NoTime /\ t - s.last_failure >= cooldown_minutes

\* the proxies _get_active_proxies resets: inactive, cooldown passed
CooledDown(st, t) == {p \in Proxies : ~st[p].is_active /\ cooldown_passed(st[p], t)}

\* the stats after _get_active_proxies: cooled down proxies are active again
\* with consecutive_failures = 0
ResetCooledDown(st, t) ==
  [p \in Proxies |->
     IF p \in CooledDown(st, t)
       THEN [st[p] EXCEPT !.is_active = TRUE, !.consecutive_failures = 0]
       ELSE st[p]]

\* _get_active_proxies: the active proxies in the order of the stats dict
ActiveList(st) ==
  LET F[k \in 0..Len(ProxyList)] ==
        IF k = 0 THEN <<>>
        ELSE IF st[ProxyList[k]].is_active THEN Append(F[k - 1], ProxyList[k])
        ELSE F[k - 1]
  IN F[Len(ProxyList)]

\* ProxyStats.score > 0: the proxy is active and has been used (without a
\* success the response time component is 0.3, with one the success rate
\* component is positive)
score_positive(s) == s.is_active /\ s.total_requests > 0

\* the proxies the strategy can select from the active list
Selectable(st, active, idx) ==
  CASE strategy = "round_robin" -> {active[(idx % Len(active)) + 1]}
    [] strategy = "random" -> {active[k] : k \in 1..Len(active)}
    [] OTHER ->
         \* performance: random.choice when every score is 0, else a
         \* weighted choice, which falls on a proxy of positive score
         LET scored == {active[k] : k \in 1..Len(active)}
             positive == {p \in scored : score_positive(st[p])}
         IN IF positive = {} THEN scored ELSE positive

\* the direct connection is returned whether or not fallback is enabled
no_active_result_direct(fb) == "None"

\* if not active_proxies: return None when enable_direct_fallback, else
\* raise RuntimeError
no_active_result(fb) == IF fb THEN "None" ELSE "RuntimeError"

\* what get_proxy does to the pool
get_proxy_call ==
  LET st == ResetCooledDown(stats, now)
      active == ActiveList(st)
      call == [result |-> "none", at |-> now, cooled |-> CooledDown(stats, now),
               toggle |-> ~lastProxy.toggle]
  IN /\ stats' = st
     /\ IF active = <<>>
          THEN /\ lastProxy' = [call EXCEPT !.result =
                                  no_active_result(enable_direct_fallback)]
               /\ UNCHANGED current_index
          ELSE /\ \E p \in Selectable(st, active, current_index) :
                    lastProxy' = [call EXCEPT !.result = p]
               /\ current_index' = IF strategy = "round_robin"
                                     THEN (current_index + 1) % IndexModulus
                                     ELSE current_index
     /\ UNCHANGED <<strategy, enable_direct_fallback, now>>

get_proxy ==
  /\ get_proxy_call
  /\ UNCHANGED <<pipeline, lastSubmit, scoring, crawling>>

\* the stats after mark_success(url): unchanged when url is None or not a key
success_stats(st, url) ==
  IF url \notin Proxies THEN st
  ELSE [st EXCEPT ![url].total_requests = @ + 1,
                  ![url].consecutive_failures = 0]

mark_success(p) ==
  /\ stats[p].total_requests < MaxRequests
  /\ stats' = success_stats(stats, p)
  /\ UNCHANGED <<current_index, strategy, enable_direct_fallback, now, lastProxy,
                 pipeline, lastSubmit, scoring, crawling>>

\* if stats.consecutive_failures >= self.max_consecutive_failures
deactivate(n) == n >= max_consecutive_failures

\* the stats after mark_failed(url) at time t: unchanged when url is None or
\* not a key
failed_stats(st, url, t) ==
  IF url \notin Proxies THEN st
  ELSE [st EXCEPT
          ![url] = [total_requests |-> @.total_requests + 1,
                    consecutive_failures |-> @.consecutive_failures + 1,
                    last_failure |-> t,
                    is_active |-> IF deactivate(@.consecutive_failures + 1)
                                    THEN FALSE ELSE @.is_active]]

mark_failed(p) ==
  /\ stats[p].total_requests < MaxRequests
  /\ stats' = failed_stats(stats, p, now)
  /\ UNCHANGED <<current_index, strategy, enable_direct_fallback, now, lastProxy,
                 pipeline, lastSubmit, scoring, crawling>>

\* time passes
Tick ==
  /\ now < MaxNow
  /\ now' = now + TimeStep
  /\ UNCHANGED <<stats, current_index, strategy, enable_direct_fallback, lastProxy,
                 pipeline, lastSubmit, scoring, crawling>>

\* ----------------------------------------------------------------- crawler
\* if proxy_url and not proxy_url.startswith("http"): proxy_url = "http://" + proxy_url
ensure_scheme(p) == IF p \in Proxies /\ ~HasScheme[p] THEN "http://" \o p ELSE p

\* get_transcript is called with use_proxies set
get_transcript_begin ==
  /\ fetch.pc \in {"idle", "done"}
  /\ fetch.fetches < MaxFetches
  /\ fetch' = [pc |-> "select", attempt |-> 0, proxy |-> "none", outcome |-> "none",
               result |-> "none", fetches |-> fetch.fetches + 1]
  /\ UNCHANGED <<pool, pipeline, lastSubmit, scoring>>

\* proxy_url = self.proxy_manager.get_proxy(), at the head of an attempt; the
\* RuntimeError of get_proxy leaves get_transcript
get_transcript_select ==
  /\ fetch.pc = "select"
  /\ get_proxy_call
  /\ fetch' = IF lastProxy'.result = "RuntimeError"
                THEN [fetch EXCEPT !.pc = "done", !.result = "RuntimeError"]
                ELSE [fetch EXCEPT !.pc = "attempt", !.proxy = lastProxy'.result]
  /\ UNCHANGED <<pipeline, lastSubmit, scoring>>

\* api.fetch through the selected proxy (directly when get_proxy returned
\* None), and the record of its outcome; except Exception catches
\* TranscriptsDisabled and NoTranscriptFound like every other failure
get_transcript_attempt(outcome) ==
  /\ fetch.pc = "attempt"
  /\ LET proxy_url == ensure_scheme(fetch.proxy)
     IN IF outcome = "ok"
          THEN /\ stats' = IF fetch.proxy # "None"
                             THEN success_stats(stats, proxy_url) ELSE stats
               /\ fetch' = [fetch EXCEPT !.pc = "done", !.outcome = outcome,
                                         !.result = "text"]
          ELSE /\ stats' = IF fetch.proxy # "None"
                             THEN failed_stats(stats, proxy_url, now) ELSE stats
               /\ fetch' = IF fetch.attempt = 2
                             THEN [fetch EXCEPT !.pc = "done", !.outcome = outcome,
                                                !.result = "None"]
                             ELSE [fetch EXCEPT !.pc = "select", !.outcome = outcome,
                                                !.attempt = @ + 1]
  /\ UNCHANGED <<current_index, strategy, enable_direct_fallback, now, lastProxy,
                 pipeline, lastSubmit, scoring>>

\* ---------------------------------------------------------- quality scorer
\* Factor values are in thousandths (1000 = 1.0), overall in hundred-thousandths
\* (80000 = 0.8): a factor in thousandths times a weight in hundredths.
Min(a, b) == IF a <= b THEN a ELSE b

Max(a, b) == IF a >= b THEN a ELSE b

\* math.log10, exact on the powers of ten the metrics draw
RECURSIVE log10(_)
log10(n) == IF n < 10 THEN 0 ELSE 1 + log10(n \div 10)

\* min(1.0, overlap / max(1, len(query_keywords)))
overlap_score(overlap, nq) == Min(1000, (overlap * 1000) \div Max(1, nq))

_score_relevance(m) ==
  LET title_score == overlap_score(m.title_overlap, m.nq)
      desc_score == overlap_score(m.desc_overlap, m.nq)
      transcript_score == overlap_score(m.transcript_overlap, m.nq)
      tag_score == IF m.nq > 0 THEN overlap_score(m.tag_overlap, m.nq) ELSE 0
  IN (title_score * 40 + desc_score * 30 + transcript_score * 20 + tag_score * 10) \div 100

_score_authority(m) ==
  LET subscriber_score == IF m.subscriber_count > 0
                          THEN Min(1000, (log10(m.subscriber_count) * 10000) \div 65)
                          ELSE 0
      verification_score == IF m.is_verified THEN 1000 ELSE 500
      view_score == IF m.view_count > 0
                    THEN Min(1000, (log10(m.view_count) * 10000) \div 65)
                    ELSE 0
  IN (subscriber_score * 40 + verification_score * 30 + view_score * 30) \div 100

_score_engagement(m) ==
  LET like_score == IF m.view_count > 0
                    THEN Min(1000, (m.like_count * 20000) \div m.view_count)
                    ELSE 0
      comment_score == IF m.comment_count > 0
                       THEN Min(1000, (log10(m.comment_count + 1) * 10000) \div 35)
                       ELSE 0
  IN (like_score * 60 + comment_score * 40) \div 100

\* t is datetime.now(), read inside the function
_score_freshness(m, t) ==
  IF m.published_at = NoDate THEN 500
  ELSE LET age_days == t - m.published_at
       IN IF age_days < 30 THEN 1000
          ELSE IF age_days < 180 THEN 900
          ELSE IF age_days < 365 THEN 700
          ELSE IF age_days < 730 THEN 500
          ELSE IF age_days < 1095 THEN 300
          ELSE 200

_score_completeness(m) ==
  LET transcript_score == IF m.transcript_words >= 500 THEN 1000
                          ELSE IF m.transcript_words >= 200 THEN 700
                          ELSE IF m.transcript_words >= 100 THEN 500
                          ELSE 300
      secs == m.duration_seconds
      duration_score == IF 600 <= secs /\ secs <= 1800 THEN 1000
                        ELSE IF 300 <= secs /\ secs < 600 THEN 800
                        ELSE IF 1800 < secs /\ secs <= 3600 THEN 900
                        ELSE IF secs < 300 THEN 500
                        ELSE 700
      caption_score == IF m.has_captions THEN 1000 ELSE 300
      desc_score == IF m.desc_words >= 50 THEN 1000
                    ELSE IF m.desc_words >= 20 THEN 700
                    ELSE 400
  IN (transcript_score * 40 + duration_score * 30 + caption_score * 20 + desc_score * 10)
       \div 100

clamp_none(x) == x
\* min(1.0, max(0.0, x)), applied to the boosted relevance and authority
clamp(x) == Min(1000, Max(0, x))

\* the weighted overall score of five factor values
weighted_overall(r, a, e, f, c) ==
  r * WEIGHTS.relevance + a * WEIGHTS.authority + e * WEIGHTS.engagement
    + f * WEIGHTS.freshness + c * WEIGHTS.completeness

\* subtracting a timezone-aware published_at from datetime.now() raises TypeError
score_raises(m) == m.published_at = AwareDate

\* the QualityScore score_content returns for metrics m at time t
QualityScoreOf(sc, m, t) ==
  LET relevance == clamp((_score_relevance(m) * sc.relevance_boost) \div 1000)
      authority == clamp((_score_authority(m) * sc.authority_boost) \div 1000)
      engagement == _score_engagement(m)
      freshness == _score_freshness(m, t)
      completeness == _score_completeness(m)
  IN [raised |-> FALSE,
      overall |-> weighted_overall(relevance, authority, engagement, freshness,
                                   completeness),
      relevance |-> relevance, authority |-> authority, engagement |-> engagement,
      freshness |-> freshness, completeness |-> completeness]

\* the statistics after one more score
update_statistics(sc, overall) ==
  LET n == sc.scores_calculated + 1
  IN [sc EXCEPT !.scores_calculated = n,
                !.scores_above_threshold =
                   IF overall >= sc.min_score_threshold THEN @ + 1 ELSE @,
                !.average_score = (@ * (n - 1) + overall) \div n]

score_content(m) ==
  /\ scorer.scores_calculated < MaxScores
  /\ prevScore' = lastScore
  /\ IF score_raises(m)
     THEN /\ lastScore' = [called |-> TRUE, metrics |-> m, at |-> today,
                           result |-> NoQualityScore, passed |-> "unknown"]
          /\ UNCHANGED scorer
     ELSE LET q == QualityScoreOf(scorer, m, today)
          IN /\ lastScore' = [called |-> TRUE, metrics |-> m, at |-> today,
                              result |-> q, passed |-> "unknown"]
             /\ scorer' = update_statistics(scorer, q.overall)
  /\ UNCHANGED <<today, pipeline, lastSubmit, pool, crawling>>

passes_strict(sc, q) == q.overall > sc.min_score_threshold
passes(sc, q) == q.overall >= sc.min_score_threshold

\* the caller hands the returned score to passes_threshold
passes_threshold ==
  /\ lastScore.called
  /\ ~lastScore.result.raised
  /\ lastScore.passed = "unknown"
  /\ lastScore' = [lastScore EXCEPT !.passed =
                     IF passes(scorer, lastScore.result) THEN "yes" ELSE "no"]
  /\ UNCHANGED <<scorer, today, prevScore, pipeline, lastSubmit, pool, crawling>>

\* the clock advances between two calls
NextDay ==
  /\ today + DayStep <= MaxDay
  /\ today' = today + DayStep
  /\ UNCHANGED <<scorer, lastScore, prevScore, pipeline, lastSubmit, pool, crawling>>

\* ------------------------------------------------------------ specification
Next ==
  \/ \E i \in Items : submit_video_for_indexing(i)
  \/ transcription_callback
  \/ quality_callback
  \/ embedding_callback
  \/ render_review_page
  \/ \E i \in Items : update_status_callback(i, "approved")
  \/ \E i \in Items : update_status_callback(i, "rejected")
  \/ \E i \in Items : queue_approved_video(i)

Spec == Init /\ [][Next]_vars

\* the pipeline under at-least-once delivery: workers may die before the ack
NextRedelivery ==
  \/ Next
  \/ transcription_callback_crash
  \/ quality_callback_crash
  \/ embedding_callback_crash

SpecRedelivery == Init /\ [][NextRedelivery]_vars

\* the pipeline when a call on the channel may fail
ChannelFaults == {"publish", "ack"}

\* one item passes through the pipeline and the review
NextFaults ==
  \/ submit_video_for_indexing("X")
  \/ transcription_callback
  \/ quality_callback
  \/ embedding_callback
  \/ render_review_page
  \/ update_status_callback("X", "approved")
  \/ queue_approved_video("X")
  \/ \E fault \in ChannelFaults : transcription_callback_fault(fault)
  \/ \E fault \in ChannelFaults : quality_callback_fault(fault)
  \/ \E fault \in ChannelFaults : embedding_callback_fault(fault)

SpecFaults == Init /\ [][NextFaults]_vars

\* the orchestrator alone: single and batch submissions, publishes that
\* succeed or raise, nothing consuming the queue
SeqsUpTo(S, n) == UNION {[1..k -> S] : k \in 0..n}

NextOrchestrator ==
  \/ \E i \in Items, h \in Hints, ok \in BOOLEAN : submit_call(i, h, ok)
  \/ \E urls \in SeqsUpTo(Items, MaxBatch) :
       \E oks \in [1..Len(urls) -> BOOLEAN] : submit_batch(urls, oks)

SpecOrchestrator == Init /\ [][NextOrchestrator]_vars

\* the proxy pool alone, under each strategy and fallback setting
InitProxy ==
  /\ \E st \in Strategies, fb \in BOOLEAN : ProxyManagerInit(st, fb)
  /\ QualityScorerInit(0, 1000, 1000)
  /\ PipelineInit

NextProxy ==
  \/ get_proxy
  \/ \E p \in Proxies : mark_success(p)
  \/ \E p \in Proxies : mark_failed(p)
  \/ Tick

SpecProxy == InitProxy /\ [][NextProxy]_vars

\* the pipeline with malformed messages arriving on its queues
NextMalformed ==
  \/ Next
  \/ \E queue \in {"new", "transcribed", "validated"} : publish_malformed(queue)

SpecMalformed == Init /\ [][NextMalformed]_vars


\* a crawler with use_proxies set, its ProxyManager built from the configuration
NextCrawler ==
  \/ get_transcript_begin
  \/ get_transcript_select
  \/ \E outcome \in AttemptOutcomes : get_transcript_attempt(outcome)
  \/ Tick

SpecCrawler == InitProxy /\ [][NextCrawler]_vars

\* one scorer, built with the caller's threshold and boosts, scoring over days
InitScorer ==
  /\ ProxyManagerInit("performance", TRUE)
  /\ \E th \in Thresholds, b \in Boosts : QualityScorerInit(th, b[1], b[2])
  /\ PipelineInit

NextScorer ==
  \/ \E m \in MetricsSet : score_content(m)
  \/ passes_threshold
  \/ NextDay

SpecScorer == InitScorer /\ [][NextScorer]_vars

\* ------------------------------------------------------------------ claims
ItemsIn(q) == {q[k].id : k \in 1..Len(q)}
ChunksOf(i) == {e \in collection : e.id = i}

\* C1: a delivery that the quality gate acknowledges with overall score s
\* leaves the item approved with quality_score = s and appends exactly one
\* message for the item to the validated queue when s >= 0.8, and leaves it
\* pending_review with a reason that records the score and the 0.8
\* threshold, the validated queue untouched, when s < 0.8.
GateAcked == Len(qTranscribed') = Len(qTranscribed) - 1

C1_GateBranches ==
  [][GateAcked =>
       LET i == Head(qTranscribed).id
           s == lastCall'.score
       IN IF s >= GateThreshold
            THEN /\ videos'[i].status = "approved"
                 /\ videos'[i].quality_score = s
                 /\ Len(qValidated') = Len(qValidated) + 1
                 /\ SubSeq(qValidated', 1, Len(qValidated)) = qValidated
                 /\ qValidated'[Len(qValidated')].id = i
            ELSE /\ videos'[i].status = "pending_review"
                 /\ videos'[i].quality_score = s
                 /\ videos'[i].rejection_reason =
                      [text |-> "Quality score is below threshold (0.8)", score |-> Fmt2(s)]
                 /\ qValidated' = qValidated]_vars

C1_Witness ==
  /\ videos["X"].status = "approved"
  /\ videos["X"].quality_score = GateThreshold
  /\ "X" \in ItemsIn(qValidated)
  /\ videos["Y"].status = "pending_review"
  /\ videos["Y"].quality_score = 550
  /\ "Y" \notin ItemsIn(qValidated)
  /\ lastCall.stage = "gate"

\* C2: a chunk is written to the collection only for an item whose status had
\* been set to approved before the write; hence an item that was never
\* approved has no chunk in the collection.
C2_IndexedOnlyAfterApproval ==
  [][\A e \in collection' \ collection : e.id \in everApproved]_vars

C2_Witness ==
  \E i \in Items :
    /\ ChunksOf(i) # {}
    /\ i \in everApproved
    /\ videos[i].status = "ingested"
    /\ \E j \in Items : videos[j].status \in {"pending_review", "rejected"}
                        /\ j \notin everApproved /\ ChunksOf(j) = {}

\* C3: a fetch-stage message that leaves the stage after failing transiently
\* on every delivery has been delivered exactly max_retries + 1 times and its
\* item holds status error_fetch.
C3_FetchRetryBound ==
  (/\ lastCall.stage = "fetch"
   /\ lastCall.cause \in {"db_error", "network_error"}
   /\ lastCall.outcome \in {"discarded", "skipped"})
  => /\ lastCall.deliv = max_retries + 1
     /\ videos[lastCall.id].status = "error_fetch"

\* C4: the ingestion stage requeues a failing message at most max_retries
\* times; the delivery after the last requeue ends with status
\* error_ingestion instead of another requeue.
C4_IngestionRetryBound ==
  (lastCall.stage = "ingest" /\ lastCall.outcome = "nacked")
  => lastCall.deliv <= max_retries

\* C5: however often the ingestion stage processes messages of one item, the
\* collection holds at most one chunk for that item.
C5_IdempotentIngestion ==
  \A i \in Items : Cardinality(ChunksOf(i)) <= 1

\* C6: a fetch that finds no transcript is acknowledged without requeue and
\* leaves the item with status skipped_no_transcript.
C6_NoTranscriptSkip ==
  (lastCall.stage = "fetch" /\ lastCall.cause = "no_transcript")
  => /\ lastCall.outcome = "skipped"
     /\ videos[lastCall.id].status = "skipped_no_transcript"

\* C7: a fetch that fails for another reason than a missing transcript, on a
\* message with retry count below max_retries, is requeued with the retry
\* count incremented, not acknowledged and dropped.
C7_OtherFailureRequeued ==
  (/\ lastCall.stage = "fetch"
   /\ lastCall.cause = "network_error"
   /\ lastCall.retry < max_retries)
  => /\ lastCall.outcome = "requeued"
     /\ \E k \in 1..Len(qNew) : qNew[k].id = lastCall.id /\ qNew[k].retry = lastCall.retry + 1

\* C8: a quality-gate delivery on which the scorer raises is the only delivery
\* of that message, and the item then holds status error_validation.
C8_ScorerErrorNotRetried ==
  (lastCall.stage = "gate" /\ lastCall.cause \in {"scorer_raised", "no_score"})
  => /\ lastCall.deliv = 1
     /\ lastCall.id \notin ItemsIn(qTranscribed)
     /\ videos[lastCall.id].status = "error_validation"

\* C9: an item that the gate scored 0.92 has passed through discovered,
\* fetching, fetched and scoring in that order, and its validated message is
\* ingested: unless the index or the database fails, the ingestion stage ends
\* with status ingested and one chunk.
C9_EndToEnd ==
  /\ (lastCall.stage = "gate" /\ lastCall.score = 920 /\ lastCall.outcome = "approved")
       => /\ Len(statusHist[lastCall.id]) >= 5
          /\ SubSeq(statusHist[lastCall.id], 1, 5) =
               <<"discovered", "fetching", "fetched", "scoring", "approved">>
  /\ (/\ lastCall.stage = "ingest"
      /\ lastCall.score = 920
      /\ lastCall.cause \notin {"index_error", "db_error"})
       => /\ lastCall.outcome = "ingested"
          /\ videos[lastCall.id].status = "ingested"
          /\ Cardinality(ChunksOf(lastCall.id)) = 1

\* C10: every change of a persisted status follows an edge of the lifecycle:
\* discovered -> fetching -> fetched -> scoring -> approved -> ingesting ->
\* ingested, scoring -> pending_review, pending_review -> approved or
\* rejected, skip and error statuses entered from their own stage; the other
\* terminal statuses are left only for discovered, by a fresh submission.
LifecycleEdges ==
  {<<"NO_ROW", "discovered">>, <<"discovered", "fetching">>, <<"fetching", "fetched">>,
   <<"fetched", "scoring">>, <<"scoring", "approved">>, <<"approved", "ingesting">>,
   <<"ingesting", "ingested">>, <<"scoring", "pending_review">>,
   <<"pending_review", "approved">>, <<"pending_review", "rejected">>,
   <<"fetching", "skipped_no_transcript">>, <<"fetching", "error_fetch">>,
   <<"scoring", "error_validation">>, <<"ingesting", "error_ingestion">>}
  \cup {<<t, "discovered">> : t \in {"ingested", "rejected", "skipped_no_transcript",
                                    "error_fetch", "error_validation", "error_ingestion"}}

C10_LifecycleEdges ==
  [][\A i \in Items :
       videos'[i].status # videos[i].status
         => <<videos[i].status, videos'[i].status>> \in LifecycleEdges]_vars

\* C11: a delivery that removes a message from its queue without forwarding
\* it leaves the item with the terminal status of that exit:
\* skipped_no_transcript or error_fetch at the fetch stage, pending_review or
\* error_validation at the gate, ingested or error_ingestion at ingestion.
C11_TerminalStatusVisible ==
  [][/\ (Len(qNew') < Len(qNew) /\ qTranscribed' = qTranscribed)
          => videos'[Head(qNew).id].status \in {"skipped_no_transcript", "error_fetch"}
     /\ (Len(qTranscribed') < Len(qTranscribed) /\ qValidated' = qValidated)
          => videos'[Head(qTranscribed).id].status \in {"pending_review", "error_validation"}
     /\ Len(qValidated') < Len(qValidated)
          => videos'[Head(qValidated).id].status \in {"ingested", "error_ingestion"}]_vars

\* C12: in every callback the acknowledgement is the last operation: the
\* store write of the delivery and the publish of its successor message
\* (forward or retry requeue) come before it, and a delivery that forwarded
\* or requeued a message did perform that write and publish.
OpsBefore(ops, a, b) ==
  \E j, k \in 1..Len(ops) : j < k /\ ops[j] = a /\ ops[k] = b

WorkerStep ==
  \/ qNew' # qNew /\ Len(qNew') <= Len(qNew)
  \/ qTranscribed' # qTranscribed /\ Len(qTranscribed') <= Len(qTranscribed)
  \/ qValidated' # qValidated /\ Len(qValidated') <= Len(qValidated)

C13_IngestedIsFinal ==
  [][WorkerStep =>
       \A i \in Items :
         videos[i].status = "ingested" => videos'[i].status = "ingested"]_vars

\* C14: the step in which a reviewer approves a pending_review item appends
\* a message for that item to the validated queue, so that the item is not
\* left with status approved and no message in flight.
C14_ApprovalIsQueued ==
  [][\A i \in Items :
       (/\ videos[i].status = "pending_review"
        /\ videos'[i].status = "approved"
        /\ qTranscribed' = qTranscribed)
         => /\ Len(qValidated') = Len(qValidated) + 1
            /\ qValidated'[Len(qValidated')].id = i]_vars

\* C15: a requeue within a stage puts the same message back with its retry
\* count grown by exactly 1, at the fetch stage (republish) as well as at the
\* gate and at ingestion (negative acknowledgement); and every message
\* forwarded to the next queue starts with retry count 0.
C15_RetryCountGrows ==
  [][/\ (Len(qNew') = Len(qNew) /\ qNew' # qNew)
          => /\ qNew'[Len(qNew')].id = Head(qNew).id
             /\ qNew'[Len(qNew')].retry = Head(qNew).retry + 1
     /\ (Len(qTranscribed') = Len(qTranscribed) /\ qTranscribed' # qTranscribed)
          => /\ Head(qTranscribed').id = Head(qTranscribed).id
             /\ Head(qTranscribed').metadata = Head(qTranscribed).metadata
             /\ Head(qTranscribed').retry = Head(qTranscribed).retry + 1
     /\ (Len(qValidated') = Len(qValidated) /\ qValidated' # qValidated)
          => /\ Head(qValidated').id = Head(qValidated).id
             /\ Head(qValidated').metadata = Head(qValidated).metadata
             /\ Head(qValidated').retry = Head(qValidated).retry + 1
     /\ Len(qTranscribed') > Len(qTranscribed)
          => qTranscribed'[Len(qTranscribed')].retry = 0
     /\ Len(qValidated') > Len(qValidated)
          => qValidated'[Len(qValidated')].retry = 0]_vars

\* C16: a delivery of a malformed message removes it from its queue: the
\* message is acknowledged on its first delivery and never requeued, at
\* every stage.
C16_MalformedDropped ==
  [][/\ (qNew # <<>> /\ Malformed(Head(qNew)) /\ qNew' # qNew /\ Len(qNew') <= Len(qNew))
          => qNew' = Tail(qNew)
     /\ (/\ qTranscribed # <<>> /\ Malformed(Head(qTranscribed))
         /\ qTranscribed' # qTranscribed /\ Len(qTranscribed') <= Len(qTranscribed))
          => qTranscribed' = Tail(qTranscribed)
     /\ (/\ qValidated # <<>> /\ Malformed(Head(qValidated))
         /\ qValidated' # qValidated /\ Len(qValidated') <= Len(qValidated))
          => qValidated' = Tail(qValidated)]_vars

\* C17: a row of the videos table is never deleted, and no worker step
\* changes the status or the score of an item that is rejected or
\* pending_review: a second submission of its URL leaves both as they are.
C17_ResubmissionKeepsVerdict ==
  [][\A i \in Items :
       /\ videos[i].status # "NO_ROW" => videos'[i].status # "NO_ROW"
       /\ (WorkerStep /\ videos[i].status \in {"rejected", "pending_review"})
            => /\ videos'[i].status = videos[i].status
               /\ videos'[i].quality_score = videos[i].quality_score]_vars

\* C18: submit_video_for_indexing returns True exactly when it has appended
\* one message with the URL and the hints to the new queue, and returns False
\* with the queue untouched when the publish fails; submit_batch reports
\* successful + failed = total = number of URLs, successful being the number
\* of messages it enqueued.
C18_SubmitReportsPublish ==
  /\ lastSubmit.call = "single" =>
       IF lastSubmit.returned
         THEN qNew = Append(lastSubmit.before,
                            [id |-> lastSubmit.urls[1], hints |-> lastSubmit.hints,
                             retry |-> 0, deliv |-> 0])
         ELSE qNew = lastSubmit.before
  /\ lastSubmit.call = "batch" =>
       /\ lastSubmit.results.total = Len(lastSubmit.urls)
       /\ lastSubmit.results.successful + lastSubmit.results.failed = lastSubmit.results.total
       /\ lastSubmit.results.successful = Len(qNew) - Len(lastSubmit.before)
       /\ SubSeq(qNew, 1, Len(lastSubmit.before)) = lastSubmit.before

C18_Witness ==
  /\ lastSubmit.call = "batch"
  /\ lastSubmit.results = [total |-> 2, successful |-> 1, failed |-> 1]
  /\ Len(lastSubmit.before) = 1
  /\ lastSubmit.before[1].hints = "hints"
  /\ Len(qNew) = 2

\* C19: when the gate scores an item, the query context it hands to the
\* scorer is built from the hints submitted with the item's URL, and from
\* the title only when no hints were submitted.
C19_QueryFromHints ==
  (lastCall.stage = "gate" /\ lastCall.id \in Items)
  => lastCall.query = IF HintsOf(lastCall.id) = "hints" THEN "hints" ELSE "title"

\* C20: a proxy with max_consecutive_failures consecutive failures is
\* inactive; get_proxy does not return a proxy that is inactive while fewer
\* than cooldown_minutes have passed since its last failure; and a call of
\* get_proxy at or after the end of the cooldown makes the proxy active
\* again, so that it can be returned.
C20_CooldownRespected ==
  [][/\ \A p \in Proxies :
          stats'[p].consecutive_failures >= max_consecutive_failures
            => ~stats'[p].is_active
     /\ lastProxy'.toggle # lastProxy.toggle
          => \A p \in Proxies :
               /\ lastProxy'.result = p
                    => \/ stats[p].is_active
                       \/ /\ stats[p].last_failure # NoTime
                          /\ now - stats[p].last_failure >= cooldown_minutes
               /\ (/\ ~stats[p].is_active
                   /\ stats[p].last_failure # NoTime
                   /\ now - stats[p].last_failure >= cooldown_minutes)
                    => /\ stats'[p].is_active
                       /\ stats'[p].consecutive_failures = 0]_vars

C20_Witness ==
  \E p \in Proxies :
    /\ lastProxy.result = p
    /\ p \in lastProxy.cooled
    /\ stats[p].total_requests >= max_consecutive_failures
    /\ lastProxy.at - stats[p].last_failure >= cooldown_minutes
    /\ stats[p].is_active

\* C21: a call of get_proxy returns an active proxy whenever one is active
\* (its flag set, or its cooldown over); when none is, it returns None, the
\* direct connection, if direct fallback is enabled, and raises an error if
\* it is disabled.
ActiveAt(st, t) ==
  {p \in Proxies : st[p].is_active
                   \/ (st[p].last_failure # NoTime
                       /\ t - st[p].last_failure >= cooldown_minutes)}

C21_ActiveOrFallback ==
  [][lastProxy'.toggle # lastProxy.toggle =>
       IF ActiveAt(stats, now) # {}
         THEN /\ lastProxy'.result \in ActiveAt(stats, now)
              /\ stats'[lastProxy'.result].is_active
         ELSE lastProxy'.result = IF enable_direct_fallback THEN "None"
                                  ELSE "RuntimeError"]_vars

C21_Witness ==
  /\ lastProxy.result = "RuntimeError"
  /\ ~enable_direct_fallback
  /\ \A p \in Proxies : ~stats[p].is_active /\ stats[p].last_failure = lastProxy.at

\* C22: two calls of score_content with identical metrics return identical
\* factor values and an identical overall, whenever the calls are made and
\* however many scores the scorer computed before.
C22_Deterministic ==
  (lastScore.called /\ prevScore.called /\ lastScore.metrics = prevScore.metrics)
    => lastScore.result = prevScore.result

\* C23: the five weights sum to 1.0, and every returned overall is the weighted
\* sum (0.30, 0.25, 0.20, 0.15, 0.10) of the returned factors, each of which
\* lies in [0, 1], so that overall lies in [0, 1].
C23_WeightedSum ==
  /\ WEIGHTS.relevance + WEIGHTS.authority + WEIGHTS.engagement + WEIGHTS.freshness
       + WEIGHTS.completeness = 100
  /\ \A s \in {lastScore, prevScore} :
       (s.called /\ ~s.result.raised) =>
         LET q == s.result
         IN /\ q.overall = q.relevance * 30 + q.authority * 25 + q.engagement * 20
                             + q.freshness * 15 + q.completeness * 10
            /\ \A f \in {q.relevance, q.authority, q.engagement, q.freshness,
                         q.completeness} : 0 <= f /\ f <= 1000
            /\ 0 <= q.overall /\ q.overall <= 100000

\* a boosted relevance above 1.0 was returned as 1.0
C23_Witness ==
  /\ lastScore.called
  /\ ~lastScore.result.raised
  /\ (_score_relevance(lastScore.metrics) * scorer.relevance_boost) \div 1000 > 1000
  /\ lastScore.result.relevance = 1000
  /\ lastScore.result.engagement > 0

\* C24: passes_threshold answers true exactly when overall >= the threshold the
\* caller supplied; for a fixed threshold a higher overall never turns a pass
\* into a fail, and an overall equal to the threshold passes.
C24_ThresholdInclusive ==
  /\ \A s \in {lastScore, prevScore} :
       s.passed # "unknown" =>
         (s.passed = "yes" <=> s.result.overall >= scorer.min_score_threshold)
  /\ \A s, t \in {lastScore, prevScore} :
       (s.passed = "yes" /\ t.passed # "unknown" /\ t.result.overall >= s.result.overall)
         => t.passed = "yes"
  /\ \A s \in {lastScore, prevScore} :
       (s.passed # "unknown" /\ s.result.overall = scorer.min_score_threshold)
         => s.passed = "yes"

\* a score of exactly 0.8 passed the threshold 0.8, after a lower score failed it
C24_Witness ==
  /\ scorer.min_score_threshold = 80000
  /\ lastScore.passed = "yes"
  /\ lastScore.result.overall = 80000
  /\ prevScore.passed = "no"

\* get_proxy, called in this state, can return p under some rotation index
SelectableNow(p) ==
  LET st == ResetCooledDown(stats, now)
      active == ActiveList(st)
      listed == {active[k] : k \in 1..Len(active)}
      positive == {q \in listed : score_positive(st[q])}
  IN /\ p \in listed
     /\ strategy = "performance" => (positive = {} \/ p \in positive)

\* C25: in every state of the pool a proxy is excluded from selection only if
\* it has at least max_consecutive_failures consecutive failures and its
\* cooldown has not elapsed; a proxy with fewer consecutive failures (reset to
\* 0 by a recorded success, say) is selectable.
C25_ExcludedOnlyWhileCooling ==
  \A p \in Proxies :
    ~SelectableNow(p) =>
      /\ stats[p].consecutive_failures >= max_consecutive_failures
      /\ ~cooldown_passed(stats[p], now)

\* an attempt of get_transcript through proxy p ends in this step
AttemptThrough(p) == fetch.pc = "attempt" /\ fetch' # fetch /\ fetch.proxy = p

\* C26: one proxied fetch makes at most 3 attempts; each attempt follows its own
\* selection of a proxy; a failed attempt through a proxy records exactly one
\* failure for that proxy before the next selection; a successful attempt
\* records exactly one success for its proxy and ends the fetch.
C26_AttemptsRecorded ==
  [][ /\ fetch'.attempt <= 2
      /\ (fetch.pc = "attempt" /\ fetch' # fetch /\ fetch.attempt = 2) => fetch'.pc = "done"
      /\ (fetch'.pc = "attempt" /\ fetch.pc # "attempt") =>
           /\ fetch.pc = "select"
           /\ lastProxy'.toggle # lastProxy.toggle
           /\ fetch'.proxy = lastProxy'.result
      /\ \A p \in Proxies :
           AttemptThrough(p) =>
             /\ \A q \in Proxies \ {p} : stats'[q] = stats[q]
             /\ stats'[p].total_requests = stats[p].total_requests + 1
             /\ IF fetch'.outcome = "ok"
                  THEN /\ stats'[p].consecutive_failures = 0
                       /\ fetch'.pc = "done"
                  ELSE /\ stats'[p].consecutive_failures =
                            stats[p].consecutive_failures + 1
                       /\ stats'[p].last_failure = now
    ]_vars

\* C27: an attempt that ends with 'transcripts disabled / no transcript found'
\* ends the fetch: no further attempt is made and no failure is recorded
\* against the proxy that was used.
C27_NoTranscriptTerminal ==
  [][ (fetch.pc = "attempt" /\ fetch' # fetch /\ fetch'.outcome = "disabled")
        => (fetch'.pc = "done" /\ stats' = stats) ]_vars

\* C28: every message the gate publishes to the validated queue carries a
\* quality_breakdown of exactly the five factors relevance, authority,
\* engagement, freshness and completeness, which the validation of the
\* ingestion stage accepts.
C28_BreakdownAccepted ==
  [][ (Len(qTranscribed') < Len(qTranscribed) /\ Len(qValidated') = Len(qValidated) + 1)
        => LET md == qValidated'[Len(qValidated')].metadata
           IN /\ md.has_breakdown
              /\ md.breakdown_keys = required_factors
              /\ validate_quality_breakdown(md) ]_vars

\* C29: the write of status ingested, which supplies no score and no reason,
\* changes only the status: the quality_score and the rejection_reason the gate
\* persisted for the item are left unchanged.
C29_StatusOnlyWrite ==
  [][ \A i \in Items :
        (videos'[i].status = "ingested" /\ Len(qValidated') < Len(qValidated)
           /\ Head(qValidated).id = i)
          => /\ videos'[i].quality_score = videos[i].quality_score
             /\ videos'[i].rejection_reason = videos[i].rejection_reason ]_vars

\* the calls of basic_ack and basic_nack in a trace, and those that succeeded
SettleCalls(ops) ==
  {k \in 1..Len(ops) : ops[k] \in {"ack", "nack", "ack_failed", "nack_failed"}}

Settled(ops) == {k \in 1..Len(ops) : ops[k] \in {"ack", "nack"}}

\* C30: every invocation of a callback settles its delivery exactly once: one
\* basic_ack or one basic_nack, never both and never neither, on every path,
\* also when the publish or the ack of the success path fails.
C30_SettledOnce ==
  lastCall.stage # "none" =>
    /\ Cardinality(Settled(lastCall.ops)) = 1
    /\ ~(/\ \E k \in SettleCalls(lastCall.ops) : lastCall.ops[k] \in {"ack", "ack_failed"}
         /\ \E k \in SettleCalls(lastCall.ops) : lastCall.ops[k] \in {"nack", "nack_failed"})
====
